---- MODULE Spec2Model ----
(***************************************************************************)
(* A model of web_processor.process_document: the retrying fetch of the    *)
(* start page, the collection of the in-scope links of the link-source     *)
(* element, and the fetch / extract / write loop over the collected links. *)
(*                                                                         *)
(* Strings are sequences of one-character strings, so that prefix tests,   *)
(* URL parsing and URL resolution are computed character by character as   *)
(* the Python library functions compute them.                              *)
(***************************************************************************)
EXTENDS Integers, Sequences, FiniteSets, TLC

(***************************************************************************)
(* Bounds of the model.                                                    *)
(***************************************************************************)
\* greatest number of anchors in the link-source element
MaxAnchors == 2
\* greatest duration of one HTTP attempt (the clock is in whole ticks)
MaxAttemptTime == 1
\* the max_retry_duration parameter of the runs
MaxBudget == 2
\* the max_delay parameter of the runs
MaxDelayBound == 1
\* the longest link text given to the sanitization on its own
MaxNameLen == 3
\* the most elements of a page given to the lookups on their own
MaxElements == 2

(***************************************************************************)
(* String helpers (str methods of Python).                                 *)
(***************************************************************************)
StartsWith(s, p) == Len(p) <= Len(s) /\ SubSeq(s, 1, Len(p)) = p

EndsWith(s, p) == Len(p) <= Len(s) /\ SubSeq(s, Len(s) - Len(p) + 1, Len(s)) = p

\* s.find(c) + 1: the first position of character c in s, 0 when absent
Find(s, c) ==
    IF \E i \in 1..Len(s) : s[i] = c
    THEN CHOOSE i \in 1..Len(s) : s[i] = c /\ \A j \in 1..(i - 1) : s[j] # c
    ELSE 0

\* s.rfind(c) + 1: the last position of character c in s, 0 when absent
RFind(s, c) ==
    IF \E i \in 1..Len(s) : s[i] = c
    THEN CHOOSE i \in 1..Len(s) : s[i] = c /\ \A j \in (i + 1)..Len(s) : s[j] # c
    ELSE 0

\* s[i:] of Python, i counted from 0
From(s, i) == SubSeq(s, i + 1, Len(s))

\* s[:i] of Python
Upto(s, i) == SubSeq(s, 1, i)

RECURSIVE Split(_, _)
\* s.split(c): the list of the pieces of s between occurrences of c
Split(s, c) ==
    LET At(i) == IF i = 0 THEN <<s>> ELSE <<Upto(s, i - 1)>> \o Split(From(s, i), c)
    IN  At(Find(s, c))

RECURSIVE Join(_, _)
\* c.join(parts)
Join(parts, c) ==
    IF Len(parts) = 0 THEN <<>>
    ELSE IF Len(parts) = 1 THEN parts[1]
    ELSE parts[1] \o <<c>> \o Join(Tail(parts), c)

RECURSIVE RStrip(_, _)
\* s.rstrip(chars)
RStrip(s, chars) ==
    IF Len(s) > 0 /\ s[Len(s)] \in chars THEN RStrip(Upto(s, Len(s) - 1), chars) ELSE s

RECURSIVE LStrip(_, _)
\* s.lstrip(chars)
LStrip(s, chars) ==
    IF Len(s) > 0 /\ s[1] \in chars THEN LStrip(Tail(s), chars) ELSE s

\* s.strip(chars)
Strip(s, chars) == RStrip(LStrip(s, chars), chars)

\* [x for x in parts if x]
RECURSIVE NonEmpty(_)
NonEmpty(parts) ==
    IF Len(parts) = 0 THEN <<>>
    ELSE IF parts[1] = <<>> THEN NonEmpty(Tail(parts))
    ELSE <<parts[1]>> \o NonEmpty(Tail(parts))

Letters == {"a", "b", "c", "d", "e", "f", "g", "h", "i", "j", "k", "l", "m", "n", "o",
            "p", "q", "r", "s", "t", "u", "v", "w", "x", "y", "z"}
Capitals == {"A", "B", "H", "I", "P", "T", "X"}
Digits == {"0", "1", "2", "3", "4", "5", "6", "7", "8", "9"}

\* c.lower() for one character
Lower(c) ==
    CASE c = "A" -> "a"
      [] c = "B" -> "b"
      [] c = "H" -> "h"
      [] c = "I" -> "i"
      [] c = "P" -> "p"
      [] c = "T" -> "t"
      [] c = "X" -> "x"
      [] OTHER -> c

\* s.lower()
LowerStr(s) == [i \in 1..Len(s) |-> Lower(s[i])]

\* s.replace(a, b) for single characters a and b
Replace(s, a, b) == [i \in 1..Len(s) |-> IF s[i] = a THEN b ELSE s[i]]

\* "".join([c for c in s if keep(c)])
RECURSIVE KeepChars(_, _)
KeepChars(s, keep) ==
    IF Len(s) = 0 THEN <<>>
    ELSE IF s[1] \in keep THEN <<s[1]>> \o KeepChars(Tail(s), keep)
    ELSE KeepChars(Tail(s), keep)

(***************************************************************************)
(* urllib.parse: urlparse, urlunparse, urljoin, on character sequences.    *)
(* Each intermediate value is handed on as a parameter of the next step.   *)
(***************************************************************************)
\* the schemes of urllib.parse.uses_relative / uses_netloc that occur here
UsesRelative == {<<>>, <<"h", "t", "t", "p">>, <<"h", "t", "t", "p", "s">>}

\* the position of the first of "/", "?", "#" in s, Len(s) + 1 when none
NetlocEnd(s) ==
    IF \E i \in 1..Len(s) : s[i] \in {"/", "?", "#"}
    THEN CHOOSE i \in 1..Len(s) :
             s[i] \in {"/", "?", "#"} /\ \A j \in 1..(i - 1) : s[j] \notin {"/", "?", "#"}
    ELSE Len(s) + 1

\* urlparse(url, scheme=default): the components of url
UrlParseDefault(url, default) ==
    LET \* the path and the query are split at the first "?"
        AtQuery(scheme, netloc, fragment, r4, q) ==
            [scheme |-> scheme, netloc |-> netloc,
             path |-> IF q > 0 THEN Upto(r4, q - 1) ELSE r4,
             query |-> IF q > 0 THEN From(r4, q) ELSE <<>>,
             fragment |-> fragment]
        BeforeFragment(scheme, netloc, fragment, r4) ==
            AtQuery(scheme, netloc, fragment, r4, Find(r4, "?"))
        \* the fragment is what follows the first "#"
        AtFragment(scheme, netloc, r3, f) ==
            BeforeFragment(scheme, netloc,
                           IF f > 0 THEN From(r3, f) ELSE <<>>,
                           IF f > 0 THEN Upto(r3, f - 1) ELSE r3)
        AfterNetloc(scheme, netloc, r3) == AtFragment(scheme, netloc, r3, Find(r3, "#"))
        \* the netloc is what follows "//", up to the first of "/", "?", "#"
        AtNetloc(scheme, r2, n) == AfterNetloc(scheme, Upto(r2, n - 1), From(r2, n - 1))
        AfterScheme(scheme, r1, hasNetloc) ==
            AtNetloc(scheme,
                     IF hasNetloc THEN From(r1, 2) ELSE r1,
                     IF hasNetloc THEN NetlocEnd(From(r1, 2)) ELSE 1)
        \* the scheme is what precedes the first ":", when it is made of letters
        AtScheme(i, hasScheme) ==
            AfterScheme(IF hasScheme THEN LowerStr(Upto(url, i - 1)) ELSE default,
                        IF hasScheme THEN From(url, i) ELSE url,
                        IF hasScheme
                        THEN Len(url) >= i + 2 /\ SubSeq(url, i + 1, i + 2) = <<"/", "/">>
                        ELSE Len(url) >= 2 /\ Upto(url, 2) = <<"/", "/">>)
        AtColon(i) ==
            AtScheme(i, i > 1 /\ \A j \in 1..(i - 1) : url[j] \in Letters \cup Capitals)
    IN  AtColon(Find(url, ":"))

\* urlparse(url)
UrlParse(url) == UrlParseDefault(url, <<>>)

\* urlunparse(parts)
UrlUnparse(p) ==
    (IF p.scheme # <<>> THEN p.scheme \o <<":">> ELSE <<>>)
    \o (IF p.netloc # <<>> \/ (p.scheme # <<>> /\ p.scheme \in UsesRelative
                                /\ Upto(p.path, 2) # <<"/", "/">>)
        THEN <<"/", "/">> \o p.netloc
             \o (IF p.path # <<>> /\ p.path[1] # "/" THEN <<"/">> ELSE <<>>)
        ELSE <<>>)
    \o p.path
    \o (IF p.query # <<>> THEN <<"?">> \o p.query ELSE <<>>)
    \o (IF p.fragment # <<>> THEN <<"#">> \o p.fragment ELSE <<>>)

RECURSIVE ResolveSegments(_, _)
\* the loop of urljoin over the segments: ".." pops, "." is dropped
ResolveSegments(segments, resolved) ==
    IF Len(segments) = 0 THEN resolved
    ELSE ResolveSegments(
             Tail(segments),
             IF segments[1] = <<".", ".">>
             THEN (IF Len(resolved) > 0 THEN Upto(resolved, Len(resolved) - 1)
                   ELSE resolved)
             ELSE IF segments[1] = <<".">> THEN resolved
             ELSE Append(resolved, segments[1]))

\* urljoin(base, url)
UrlJoin(base, url) ==
    LET Joined(b, u, path) ==
            UrlUnparse([scheme |-> u.scheme, netloc |-> b.netloc,
                        path |-> IF path = <<>> THEN <<"/">> ELSE path,
                        query |-> u.query, fragment |-> u.fragment])
        Resolved(b, u, segments, resolved) ==
            Joined(b, u,
                   Join(IF segments[Len(segments)] \in {<<".">>, <<".", ".">>}
                        THEN Append(resolved, <<>>) ELSE resolved, "/"))
        WithSegments(b, u, segments) ==
            Resolved(b, u, segments, ResolveSegments(segments, <<>>))
        \* segments[1:-1] = filter(None, segments[1:-1])
        Filtered(all) ==
            IF Len(all) <= 2 THEN all
            ELSE <<all[1]>> \o NonEmpty(SubSeq(all, 2, Len(all) - 1)) \o <<all[Len(all)]>>
        WithBaseParts(b, u, bparts) ==
            WithSegments(b, u,
                IF u.path[1] = "/" THEN Split(u.path, "/")
                ELSE Filtered((IF bparts[Len(bparts)] # <<>>
                               THEN Upto(bparts, Len(bparts) - 1) ELSE bparts)
                              \o Split(u.path, "/")))
        Parsed(b, u) ==
            IF u.scheme # b.scheme \/ u.scheme \notin UsesRelative THEN url
            ELSE IF u.netloc # <<>> THEN UrlUnparse(u)
            ELSE IF u.path = <<>>
            THEN UrlUnparse([scheme |-> u.scheme, netloc |-> b.netloc, path |-> b.path,
                             query |-> IF u.query = <<>> THEN b.query ELSE u.query,
                             fragment |-> u.fragment])
            ELSE WithBaseParts(b, u, Split(b.path, "/"))
        WithBase(b) == Parsed(b, UrlParseDefault(url, b.scheme))
    IN  IF base = <<>> THEN url
        ELSE IF url = <<>> THEN base
        ELSE WithBase(UrlParse(base))

(***************************************************************************)
(* posixpath: dirname, basename, normpath, join, relpath.                  *)
(***************************************************************************)
\* os.path.dirname(p)
Dirname(p) ==
    LET Stripped(head) ==
            IF head # <<>> /\ \E j \in 1..Len(head) : head[j] # "/"
            THEN RStrip(head, {"/"}) ELSE head
    IN  Stripped(Upto(p, RFind(p, "/")))

\* os.path.basename(p)
Basename(p) == From(p, RFind(p, "/"))

RECURSIVE NormComps(_, _, _)
\* the loop of normpath over the components comps, new_comps so far in acc
NormComps(comps, acc, slashes) ==
    IF Len(comps) = 0 THEN acc
    ELSE NormComps(
             Tail(comps),
             IF comps[1] = <<".">> THEN acc
             ELSE IF comps[1] # <<".", ".">>
                     \/ (slashes = 0 /\ Len(acc) = 0)
                     \/ (Len(acc) > 0 /\ acc[Len(acc)] = <<".", ".">>)
             THEN Append(acc, comps[1])
             ELSE IF Len(acc) > 0 THEN Upto(acc, Len(acc) - 1)
             ELSE acc,
             slashes)

\* os.path.normpath(p)
NormPath(p) ==
    LET Out(out) == IF out = <<>> THEN <<".">> ELSE out
        WithSlashes(slashes) ==
            Out([k \in 1..slashes |-> "/"]
                \o Join(NormComps(NonEmpty(Split(p, "/")), <<>>, slashes), "/"))
    IN  IF p = <<>> THEN <<".">>
        ELSE WithSlashes(IF p[1] # "/" THEN 0
                         ELSE IF Len(p) >= 2 /\ p[2] = "/" /\ ~(Len(p) >= 3 /\ p[3] = "/")
                         THEN 2 ELSE 1)

\* os.path.join(a, b)
PathJoin2(a, b) ==
    IF Len(b) > 0 /\ b[1] = "/" THEN b
    ELSE IF a = <<>> \/ a[Len(a)] = "/" THEN a \o b
    ELSE a \o <<"/">> \o b

\* os.path.join(a, b, c)
PathJoin3(a, b, c) == PathJoin2(PathJoin2(a, b), c)

\* the length of the common prefix of two lists
CommonLen(xs, ys) ==
    CHOOSE k \in 0..Len(xs) :
        /\ k <= Len(ys)
        /\ \A j \in 1..k : xs[j] = ys[j]
        /\ (k = Len(xs) \/ k = Len(ys) \/ xs[k + 1] # ys[k + 1])

\* os.path.relpath(path, start) for absolute path and start
RelPath(path, start) ==
    LET Rel(rel_list) == IF rel_list = <<>> THEN <<".">> ELSE Join(rel_list, "/")
        Common(start_list, path_list, i) ==
            Rel([k \in 1..(Len(start_list) - i) |-> <<".", ".">>] \o From(path_list, i))
        Lists(start_list, path_list) ==
            Common(start_list, path_list, CommonLen(start_list, path_list))
    IN  Lists(NonEmpty(Split(NormPath(start), "/")), NonEmpty(Split(NormPath(path), "/")))

(***************************************************************************)
(* The inputs of the model: start URLs, anchors, pages, disks.             *)
(***************************************************************************)
None == "None"

\* "http://h"
Origin == <<"h", "t", "t", "p", ":", "/", "/", "h">>

\* the start URLs: http://h/d/i (a page of directory /d/), http://h/i (root
\* level) and h/i (malformed: no scheme)
StartUrls == {Origin \o <<"/", "d", "/", "i">>, Origin \o <<"/", "i">>, <<"h", "/", "i">>}

\* requests can send a request to the URL: it has the scheme http or https and
\* a host; else requests.get raises MissingSchema, InvalidSchema or InvalidURL
WellFormed(url) ==
    LET Sendable(parsed) ==
            /\ parsed.scheme \in {<<"h", "t", "t", "p">>, <<"h", "t", "t", "p", "s">>}
            /\ parsed.netloc # <<>>
    IN  Sendable(UrlParse(url))

\* the anchors <a href=...>text</a> a link-source element may hold
AnchorPool ==
    { [href |-> <<"a">>,                               text |-> <<"A", " ", "b">>],
      [href |-> <<"a", "#", "s">>,                     text |-> <<"X">>],
      [href |-> <<"b">>,                               text |-> <<"a", " ", "B", "!">>],
      [href |-> <<".", ".", "/", "o", "/", "c">>,      text |-> <<"c">>],
      [href |-> Origin \o <<"/", "d", "/", ".", ".", "/", "o", "/", "c">>, text |-> <<>>],
      [href |-> <<"h", "t", "t", "p", ":", "/", "/", "g", "/", "d", "/", "a">>,
                                                       text |-> <<"g">>],
      [href |-> <<>>,                                  text |-> <<"n">>] }

\* the lists of anchors find_all('a', href=True) may return
AnchorLists == UNION {[1..n -> AnchorPool] : n \in 0..MaxAnchors}

\* the text of a file left in the output tree by an earlier run
OldContent == <<"o", "l", "d">>

\* the output directory given to the run
OutputDir == <<"o">>

\* the disks a run may start on: nothing there, or the tree of an earlier run
InitialDisks ==
    { [dirs |-> {}, files |-> <<>>],
      [dirs |-> {<<"o">>, <<"o", "/", "d">>},
       files |-> (<<"o", "/", "d", "/", "a", "_", "b", ".", "m", "d">> :> OldContent)] }

\* the lists of candidate elements of a linked page, in document order
CandidateLists == {<<>>, <<100>>, <<101, 150>>, <<150, 101>>, <<150, 150>>}

\* a linked page after parsing: whether main_content_selector matches an element of
\* it, the text lengths of its div / article / main elements, whether it has a body
Pages == [sel : BOOLEAN, cands : CandidateLists, body : BOOLEAN]

(***************************************************************************)
(* The computations of process_document.                                   *)
(***************************************************************************)
\* no element: the None of soup.find / select_one
NoElement == [kind |-> "none", index |-> 0]

\* the least text length a candidate element must exceed
TextThreshold == 100

\* a variant of the exit test: the loop is left when the budget is reached
GiveUpAtBudget(elapsed_time, budget) == elapsed_time >= budget

\* a faulty exit test: the budget is taken one tick too long
GiveUpLate(elapsed_time, budget) == elapsed_time > budget + 1

\* the exit test of both retry loops
GiveUp(elapsed_time, budget) == elapsed_time > budget

\* a faulty draw: the lower end of the range is taken as 0
UniformFromZero(a, b) == 0..(IF a <= b THEN b ELSE a)

\* the values random.uniform(a, b) may return, in whole ticks
Uniform(a, b) == IF a <= b THEN a..b ELSE b..a

\* a faulty start of a fetch: the start time of the fetch before is kept, so
\* the time elapsed goes on from where the fetch before left it
ReadStartTimeShared(now) == now

\* the time read into start_time / link_start_time, as an offset of clock
ReadStartTime(now) == 0

\* urlunparse(parsed_link_url._replace(fragment=''))
UrlWithoutFragment(link_url) == UrlUnparse([UrlParse(link_url) EXCEPT !.fragment = <<>>])

\* a faulty parent_url_base: the query and the fragment of start_url are kept
ParentUrlBaseKeepsQuery(start) ==
    LET Base(parsed_start_url, parent_path) ==
            UrlUnparse([parsed_start_url EXCEPT
                           !.path = IF EndsWith(parent_path, <<"/">>) THEN parent_path
                                    ELSE parent_path \o <<"/">>])
        Parsed(parsed_start_url) ==
            Base(parsed_start_url, Dirname(parsed_start_url.path))
    IN  Parsed(UrlParse(start))

\* parent_url_base: the URL of the parent directory of start_url
ParentUrlBase(start) ==
    LET Base(parsed_start_url, parent_path) ==
            UrlUnparse([scheme |-> parsed_start_url.scheme,
                        netloc |-> parsed_start_url.netloc,
                        path |-> IF EndsWith(parent_path, <<"/">>) THEN parent_path
                                 ELSE parent_path \o <<"/">>,
                        query |-> <<>>, fragment |-> <<>>])
        Parsed(parsed_start_url) ==
            Base(parsed_start_url, Dirname(parsed_start_url.path))
    IN  Parsed(UrlParse(start))

\* a faulty membership test: looks for the URL among the stored full URLs
HasKeyFullUrl(map, key) == \E k \in 1..Len(map) : map[k].link_url = key

\* url_without_fragment in unique_links_map
HasKey(map, key) == \E k \in 1..Len(map) : map[k].key = key

\* a faulty admission test: the parent directory is not looked at
AdmitsAnywhere(map, url_without_fragment, parent_url_base) ==
    ~HasKey(map, url_without_fragment)

\* the test that admits a link to unique_links_map
Admits(map, url_without_fragment, parent_url_base) ==
    StartsWith(url_without_fragment, parent_url_base) /\ ~HasKey(map, url_without_fragment)

\* a variant of the stored value: the URL is stored without its fragment
MapEntryStripped(url_without_fragment, tag, link_url) ==
    [key |-> url_without_fragment, tag |-> tag, link_url |-> url_without_fragment]

\* the value stored in unique_links_map for a link
MapEntry(url_without_fragment, tag, link_url) ==
    [key |-> url_without_fragment, tag |-> tag, link_url |-> link_url]

\* a faulty iteration: a URL seen again replaces the value stored for it
CollectLinkLastWins(map, href, tag, start) ==
    LET Keyed(link_url, url_without_fragment) ==
            IF ~StartsWith(url_without_fragment, ParentUrlBase(start)) THEN map
            ELSE IF HasKey(map, url_without_fragment)
            THEN [k \in 1..Len(map) |->
                    IF map[k].key = url_without_fragment
                    THEN MapEntry(url_without_fragment, tag, link_url) ELSE map[k]]
            ELSE Append(map, MapEntry(url_without_fragment, tag, link_url))
        Joined(link_url) == Keyed(link_url, UrlWithoutFragment(link_url))
    IN  IF href = <<>> THEN map ELSE Joined(UrlJoin(start, href))

\* one iteration of the collection loop, on the anchor links[tag]
CollectLink(map, href, tag, start) ==
    LET Keyed(link_url, url_without_fragment) ==
            IF Admits(map, url_without_fragment, ParentUrlBase(start))
            THEN Append(map, MapEntry(url_without_fragment, tag, link_url))
            ELSE map
        Joined(link_url) == Keyed(link_url, UrlWithoutFragment(link_url))
    IN  IF href = <<>> THEN map ELSE Joined(UrlJoin(start, href))

\* filtered_links_info: list(unique_links_map.values())
FilteredLinksInfo(map) == [k \in 1..Len(map) |-> [tag |-> map[k].tag, link_url |-> map[k].link_url]]

\* base_path_for_relative
BasePathForRelative(start) ==
    LET Slashed(dir) == IF EndsWith(dir, <<"/">>) THEN dir ELSE dir \o <<"/">>
        Rooted(dir) == Slashed(IF dir = <<>> THEN <<"/">> ELSE dir)
    IN  Rooted(Dirname(UrlParse(start).path))

\* output_root_name
OutputRootName(start) == Basename(NormPath(BasePathForRelative(start)))

\* a faulty scan: a candidate as long as the best one so far replaces it
RECURSIVE BestAfterLastWins(_, _)
BestAfterLastWins(cands, k) ==
    LET Compared(prev, text_length) ==
            IF text_length > TextThreshold /\ text_length >= prev[1]
            THEN <<text_length, k>> ELSE prev
    IN  IF k = 0 THEN <<0, 0>>
        ELSE Compared(BestAfterLastWins(cands, k - 1), cands[k])

\* the heuristic scan: the candidate kept after the first k candidates, as
\* <<max_text_length, index of best_element>> (index 0: none yet)
RECURSIVE BestAfter(_, _)
BestAfter(cands, k) ==
    LET Compared(prev, text_length) ==
            IF text_length > TextThreshold /\ text_length > prev[1]
            THEN <<text_length, k>> ELSE prev
    IN  IF k = 0 THEN <<0, 0>> ELSE Compared(BestAfter(cands, k - 1), cands[k])

\* a faulty choice: the body is taken before the heuristic is tried
ExtractMainBodyFirst(page, selector_given) ==
    LET Heuristic(best) ==
            IF page.body THEN [kind |-> "body", index |-> 0]
            ELSE IF best[2] # 0 THEN [kind |-> "candidate", index |-> best[2]]
            ELSE NoElement
    IN  IF selector_given /\ page.sel THEN [kind |-> "selector", index |-> 0]
        ELSE Heuristic(BestAfter(page.cands, Len(page.cands)))

\* main_content_element of a linked page
ExtractMain(page, selector_given) ==
    LET Heuristic(best) ==
            IF best[2] # 0 THEN [kind |-> "candidate", index |-> best[2]]
            ELSE IF page.body THEN [kind |-> "body", index |-> 0]
            ELSE NoElement
    IN  IF selector_given /\ page.sel THEN [kind |-> "selector", index |-> 0]
        ELSE Heuristic(BestAfter(page.cands, Len(page.cands)))

\* the characters kept by the sanitization of a file name
FilenameChars == Letters \cup Capitals \cup Digits \cup {"_", "-"}

\* a faulty sanitization: the ends are trimmed before the characters are dropped
SanitizeTrimsFirst(filename_base) ==
    LET Named(filename) ==
            IF filename = <<>>
            THEN <<"u", "n", "t", "i", "t", "l", "e", "d", "_", "p", "a", "g", "e">>
            ELSE filename
    IN  Named(KeepChars(Strip(Replace(LowerStr(filename_base), " ", "_"), {"_", "-"}),
                        FilenameChars))

\* the sanitized file name of filename_base
Sanitize(filename_base) ==
    LET Named(filename) ==
            IF filename = <<>>
            THEN <<"u", "n", "t", "i", "t", "l", "e", "d", "_", "p", "a", "g", "e">>
            ELSE filename
    IN  Named(Strip(KeepChars(Replace(LowerStr(filename_base), " ", "_"), FilenameChars),
                    {"_", "-"}))

\* filename_base: the anchor text, else the last segment of the URL path
FilenameBase(text, url_without_fragment) ==
    LET Chosen(link_text) ==
            IF link_text # <<>> THEN link_text
            ELSE Replace(Basename(UrlParse(url_without_fragment).path), ".", "_")
    IN  Chosen(Strip(text, {" "}))

\* file_output_dir of a link
FileOutputDir(url_without_fragment, start, output_dir) ==
    LET Trimmed(dir) ==
            IF StartsWith(dir, <<".", "/">>) \/ StartsWith(dir, <<".", "\\">>)
            THEN From(dir, 2) ELSE dir
        Under(output_root_name, relative_output_subdir) ==
            Trimmed(IF output_root_name # <<>>
                    THEN PathJoin3(output_dir, output_root_name, relative_output_subdir)
                    ELSE PathJoin2(output_dir, relative_output_subdir))
        Based(base_path_for_relative) ==
            Under(Basename(NormPath(base_path_for_relative)),
                  Dirname(RelPath(UrlParse(url_without_fragment).path,
                                  base_path_for_relative)))
    IN  Based(BasePathForRelative(start))

\* a faulty existence test: only directories are found
ExistsDirsOnly(d, path) == NormPath(path) \in d.dirs

\* os.path.exists(path) on a disk
Exists(d, path) ==
    LET Known(real) == real \in DOMAIN d.files \/ real \in d.dirs
    IN  Known(NormPath(path))

\* f"{filename}.md" under file_output_dir
MarkdownFilename(file_output_dir, filename) ==
    PathJoin2(file_output_dir, filename \o <<".", "m", "d">>)

\* a faulty uniqueness loop: the first name is taken as it is
UniqueNameOverwrites(d, file_output_dir, original_filename, markdown_filename, counter) ==
    markdown_filename

\* the uniqueness loop: the first free name among original.md, original_1.md, ...
RECURSIVE UniqueName(_, _, _, _, _)
UniqueName(d, file_output_dir, original_filename, markdown_filename, counter) ==
    IF Exists(d, markdown_filename)
    THEN UniqueName(d, file_output_dir, original_filename,
                    MarkdownFilename(file_output_dir,
                                     original_filename \o <<"_", ToString(counter)>>),
                    counter + 1)
    ELSE markdown_filename

\* markdown_filename of a link on disk d
TargetFile(d, entry, anchor, start, output_dir) ==
    LET Unique(file_output_dir, filename) ==
            UniqueName(d, file_output_dir, filename,
                       MarkdownFilename(file_output_dir, filename), 1)
        Keyed(url_without_fragment) ==
            Unique(FileOutputDir(url_without_fragment, start, output_dir),
                   Sanitize(FilenameBase(anchor.text, url_without_fragment)))
    IN  Keyed(UrlWithoutFragment(entry.link_url))

\* the directories os.makedirs(path, exist_ok=True) leaves in place
MakeDirs(path) ==
    LET Made(parts) ==
            {NormPath(Join(Upto(parts, k), "/")) : k \in 1..Len(parts)} \ {<<".">>, <<>>}
    IN  Made(Split(path, "/"))

\* html2text.html2text(str(main_content_element)) of the page of link_url
Markdown(link_url, element) == link_url

\* the disk after open(markdown_filename, 'w').write(markdown_content)
WriteFile(d, markdown_filename, markdown_content) ==
    LET Put(real) ==
            [d EXCEPT !.files = [q \in DOMAIN d.files \cup {real} |->
                                    IF q = real THEN markdown_content ELSE d.files[q]]]
    IN  Put(NormPath(markdown_filename))

(***************************************************************************)
(* The state of process_document.                                          *)
(***************************************************************************)
VARIABLES
    pc,                     \* the position in process_document
    start_url,              \* parameter
    main_content_selector,  \* parameter: TRUE when a selector is given
    min_delay,              \* parameter
    max_delay,              \* parameter
    max_retry_duration,     \* parameter
    clock,                  \* time.time() - start_time of the current fetch
    html_content,           \* the start page as fetched
    found_by,               \* "ID" or "Class"
    links,                  \* the anchors of the link-source element
    idx,                    \* the position of the collection loop in links
    unique_links_map,       \* the ordered dict of the collected links
    cur,                    \* the position of the processing loop
    linked_page,            \* the linked page as fetched and parsed
    main_content_element,   \* the element chosen on the linked page
    requested,              \* the URLs of linked pages given to requests.get
    logged,                 \* the last message given to logging
    disk,                   \* the file system: directories and files
    disk0,                  \* the file system as the run found it
    script,                 \* the answers of a server that answers each URL one way
    run,                    \* the number of the run over the output directory
    arg,                    \* the argument of a computation applied on its own
    result                  \* the value of a computation applied on its own

vars == <<pc, start_url, main_content_selector, min_delay, max_delay,
          max_retry_duration, clock, html_content, found_by, links, idx,
          unique_links_map, cur, linked_page, main_content_element, requested,
          logged, disk, disk0, script, run, arg, result>>

\* the parameters of the run and what else no step of process_document changes
params == <<start_url, main_content_selector, min_delay, max_delay,
            max_retry_duration, disk0, script, run, arg, result>>

collected == <<html_content, found_by, links, idx, unique_links_map>>

page_state == <<linked_page, main_content_element>>

Init ==
    /\ pc = "FetchingStart"
    /\ start_url \in StartUrls
    /\ main_content_selector \in BOOLEAN
    /\ max_delay = MaxDelayBound
    /\ min_delay \in {0, max_delay}
    /\ max_retry_duration = MaxBudget
    /\ clock = 0
    /\ html_content = <<>>
    /\ found_by = None
    /\ links = <<>>
    /\ idx = 1
    /\ unique_links_map = <<>>
    /\ cur = 1
    /\ linked_page = <<>>
    /\ main_content_element = NoElement
    /\ requested = {}
    /\ logged = "Fetching starting page"
    /\ disk0 \in InitialDisks
    /\ disk = disk0
    /\ script = <<>>
    /\ run = 1
    /\ arg = <<>>
    /\ result = <<>>

(***************************************************************************)
(* The retry loop of the start page.                                       *)
(***************************************************************************)
\* a faulty give-up: the output directory is made before the return
StartGiveUpMakesDir ==
    /\ pc = "FetchingStart"
    /\ GiveUp(clock, max_retry_duration)
    /\ logged' = "Failed to fetch starting page after"
    /\ disk' = [disk EXCEPT !.dirs = @ \cup MakeDirs(OutputDir)]
    /\ pc' = "Failed"
    /\ UNCHANGED <<params, clock, collected, cur, page_state, requested>>

\* the loop test finds the budget spent: log and return
StartGiveUp ==
    /\ pc = "FetchingStart"
    /\ GiveUp(clock, max_retry_duration)
    /\ logged' = "Failed to fetch starting page after"
    /\ pc' = "Failed"
    /\ UNCHANGED <<params, clock, collected, cur, page_state, requested, disk>>

\* the loop test passes: requests.get(start_url) is begun
StartTry ==
    /\ pc = "FetchingStart"
    /\ ~GiveUp(clock, max_retry_duration)
    /\ pc' = "StartRequest"
    /\ UNCHANGED <<params, clock, collected, cur, page_state, requested, logged, disk>>

\* the attempt succeeds and the body decodes: leave the loop with html_content
StartFetched ==
    /\ pc = "StartRequest"
    /\ WellFormed(start_url)
    /\ \E byId \in BOOLEAN, byClass \in BOOLEAN :
          html_content' = <<[byId |-> byId, byClass |-> byClass]>>
    /\ clock' = 0
    /\ pc' = "LocatingSource"
    /\ UNCHANGED <<params, found_by, links, idx, unique_links_map, cur, page_state,
                   requested, logged, disk>>

\* the attempt raises a RequestException (transport error, 4xx / 5xx status, or
\* a URL that requests cannot send)
StartFetchError ==
    /\ pc = "StartRequest"
    /\ \E d \in 0..MaxAttemptTime : clock' = clock + d
    /\ logged' = "Failed to fetch starting page. Retrying"
    /\ pc' = "StartSleep"
    /\ UNCHANGED <<params, collected, cur, page_state, requested, disk>>

\* the attempt succeeds but the server names an encoding Python does not know:
\* decode raises LookupError, which the except clause does not catch
StartDecodeError ==
    /\ pc = "StartRequest"
    /\ WellFormed(start_url)
    /\ pc' = "Crashed"
    /\ UNCHANGED <<params, clock, collected, cur, page_state, requested, logged, disk>>

\* time.sleep(random.uniform(min_delay, max_delay)), then back to the loop test
StartSleep ==
    /\ pc = "StartSleep"
    /\ \E s \in Uniform(min_delay, max_delay) : clock' = clock + s
    /\ pc' = "FetchingStart"
    /\ UNCHANGED <<params, collected, cur, page_state, requested, logged, disk>>

(***************************************************************************)
(* The collection of the links.                                            *)
(***************************************************************************)
\* soup.find(id=...) and, when it finds nothing, soup.find(class_=...)
LocateSource ==
    /\ pc = "LocatingSource"
    /\ found_by' = IF html_content[1].byId THEN "ID" ELSE "Class"
    /\ IF html_content[1].byId \/ html_content[1].byClass
       THEN pc' = "FindingLinks" /\ logged' = "Found link source element"
       ELSE pc' = "Empty" /\ logged' = "Link source element not found"
    /\ UNCHANGED <<params, clock, html_content, links, idx, unique_links_map, cur,
                   page_state, requested, disk>>

\* link_source_element.find_all('a', href=True); return when it is empty
FindLinks ==
    /\ pc = "FindingLinks"
    /\ \E found \in AnchorLists :
          /\ links' = found
          /\ IF found = <<>>
             THEN pc' = "Empty" /\ logged' = "No links found"
             ELSE pc' = "CollectingLinks" /\ logged' = "Filtering links"
    /\ idx' = 1
    /\ UNCHANGED <<params, clock, html_content, found_by, unique_links_map, cur,
                   page_state, requested, disk>>

\* one iteration of the loop over links
CollectStep ==
    /\ pc = "CollectingLinks"
    /\ idx <= Len(links)
    /\ unique_links_map' = CollectLink(unique_links_map, links[idx].href, idx, start_url)
    /\ idx' = idx + 1
    /\ UNCHANGED <<pc, params, clock, html_content, found_by, links, cur, page_state,
                   requested, logged, disk>>

\* a faulty return: the output directory is made before the links are counted
CollectEmptyMakesDir ==
    /\ pc = "CollectingLinks"
    /\ idx > Len(links)
    /\ FilteredLinksInfo(unique_links_map) = <<>>
    /\ logged' = "no unique links remain"
    /\ disk' = [disk EXCEPT !.dirs = @ \cup MakeDirs(OutputDir)]
    /\ pc' = "Empty"
    /\ UNCHANGED <<params, clock, collected, cur, page_state, requested>>

\* the loop is over and nothing was kept: log and return
CollectEmpty ==
    /\ pc = "CollectingLinks"
    /\ idx > Len(links)
    /\ FilteredLinksInfo(unique_links_map) = <<>>
    /\ logged' = "no unique links remain"
    /\ pc' = "Empty"
    /\ UNCHANGED <<params, clock, collected, cur, page_state, requested, disk>>

\* the loop is over with links to process: os.makedirs(output_dir, exist_ok=True)
Prepare ==
    /\ pc = "CollectingLinks"
    /\ idx > Len(links)
    /\ FilteredLinksInfo(unique_links_map) # <<>>
    /\ logged' = "Found unique filtered links"
    /\ disk' = [disk EXCEPT !.dirs = @ \cup MakeDirs(OutputDir)]
    /\ cur' = 1
    /\ pc' = "NextLink"
    /\ UNCHANGED <<params, clock, collected, page_state, requested>>

\* os.makedirs(output_dir) raises OSError: nothing catches it
PrepareFails ==
    /\ pc = "CollectingLinks"
    /\ idx > Len(links)
    /\ FilteredLinksInfo(unique_links_map) # <<>>
    /\ logged' = "Found unique filtered links"
    /\ pc' = "Crashed"
    /\ UNCHANGED <<params, clock, collected, cur, page_state, requested, disk>>

(***************************************************************************)
(* The loop over filtered_links_info.                                      *)
(***************************************************************************)
\* the link the processing loop is at
CurrentLink == FilteredLinksInfo(unique_links_map)[cur]

\* the for statement: the next link, with its own link_start_time, or the end
NextLink ==
    /\ pc = "NextLink"
    /\ IF cur <= Len(FilteredLinksInfo(unique_links_map))
       THEN /\ pc' = "LinkCheck"
            /\ logged' = "Fetching linked page"
            /\ clock' = ReadStartTime(clock)
       ELSE /\ pc' = "Done"
            /\ UNCHANGED <<clock, logged>>
    /\ UNCHANGED <<params, collected, cur, page_state, requested, disk>>

\* a faulty give-up: the function returns instead of going on to the next link
LinkGiveUpReturns ==
    /\ pc = "LinkCheck"
    /\ GiveUp(clock, max_retry_duration)
    /\ logged' = "Failed to fetch linked page after"
    /\ pc' = "Done"
    /\ UNCHANGED <<params, clock, collected, cur, page_state, requested, disk>>

\* the loop test finds the budget spent: linked_page_html = None, continue
LinkGiveUp ==
    /\ pc = "LinkCheck"
    /\ GiveUp(clock, max_retry_duration)
    /\ logged' = "Failed to fetch linked page after"
    /\ cur' = cur + 1
    /\ pc' = "NextLink"
    /\ UNCHANGED <<params, clock, collected, page_state, requested, disk>>

\* the loop test passes: requests.get(link_url) is begun
LinkTry ==
    /\ pc = "LinkCheck"
    /\ ~GiveUp(clock, max_retry_duration)
    /\ requested' = requested \cup {CurrentLink.link_url}
    /\ pc' = "LinkRequest"
    /\ UNCHANGED <<params, clock, collected, cur, page_state, logged, disk>>

\* the attempt succeeds and the body decodes: the page is parsed
LinkFetched ==
    /\ pc = "LinkRequest"
    /\ \E page \in Pages : linked_page' = <<page>>
    /\ clock' = 0
    /\ pc' = "Extracting"
    /\ UNCHANGED <<params, collected, cur, main_content_element, requested, logged, disk>>

\* a faulty handler: the attempt raises a RequestException and the loop goes
\* back to its test without the sleep
LinkFetchErrorNoSleep ==
    /\ pc = "LinkRequest"
    /\ \E d \in 0..MaxAttemptTime : clock' = clock + d
    /\ logged' = "Failed to fetch linked page. Retrying"
    /\ pc' = "LinkCheck"
    /\ UNCHANGED <<params, collected, cur, page_state, requested, disk>>

\* the attempt raises a RequestException
LinkFetchError ==
    /\ pc = "LinkRequest"
    /\ \E d \in 0..MaxAttemptTime : clock' = clock + d
    /\ logged' = "Failed to fetch linked page. Retrying"
    /\ pc' = "LinkSleep"
    /\ UNCHANGED <<params, collected, cur, page_state, requested, disk>>

\* decode raises LookupError on an unknown encoding: nothing catches it
LinkDecodeError ==
    /\ pc = "LinkRequest"
    /\ pc' = "Crashed"
    /\ UNCHANGED <<params, clock, collected, cur, page_state, requested, logged, disk>>

\* time.sleep(random.uniform(min_delay, max_delay)), then back to the loop test
LinkSleep ==
    /\ pc = "LinkSleep"
    /\ \E s \in Uniform(min_delay, max_delay) : clock' = clock + s
    /\ pc' = "LinkCheck"
    /\ UNCHANGED <<params, collected, cur, page_state, requested, logged, disk>>

\* the message logged last while the main content of a page was chosen
ExtractLog(element) ==
    CASE element.kind = "selector" -> logged
      [] element.kind = "candidate" -> "Heuristic extraction found"
      [] element.kind = "body" -> "Heuristic extraction failed"
      [] OTHER -> "Could not find any main content"

\* boilerplate removed, the main content chosen: selector, heuristic, body
Extract ==
    /\ pc = "Extracting"
    /\ main_content_element' = ExtractMain(linked_page[1], main_content_selector)
    /\ main_content_element' # NoElement
    /\ logged' = ExtractLog(main_content_element')
    /\ linked_page' = <<>>
    /\ pc' = "MakingDirs"
    /\ UNCHANGED <<params, clock, collected, cur, requested, disk>>

\* no main content at all: log and continue
ExtractNoContent ==
    /\ pc = "Extracting"
    /\ ExtractMain(linked_page[1], main_content_selector) = NoElement
    /\ logged' = ExtractLog(NoElement)
    /\ cur' = cur + 1
    /\ linked_page' = <<>>
    /\ pc' = "NextLink"
    /\ UNCHANGED <<params, clock, collected, main_content_element, requested, disk>>

\* file_output_dir of the link the loop is at
CurrentDir ==
    FileOutputDir(UrlWithoutFragment(CurrentLink.link_url), start_url, OutputDir)

\* os.makedirs(file_output_dir, exist_ok=True)
MakeFileDir ==
    /\ pc = "MakingDirs"
    /\ disk' = [disk EXCEPT !.dirs = @ \cup MakeDirs(CurrentDir)]
    /\ pc' = "Writing"
    /\ UNCHANGED <<params, clock, collected, cur, page_state, requested, logged>>

\* os.makedirs(file_output_dir) raises OSError: nothing catches it
MakeFileDirFails ==
    /\ pc = "MakingDirs"
    /\ pc' = "Crashed"
    /\ UNCHANGED <<params, clock, collected, cur, page_state, requested, logged, disk>>

\* the uniqueness loop, then the file is written
Write ==
    /\ pc = "Writing"
    /\ disk' = WriteFile(disk,
                         TargetFile(disk, CurrentLink, links[CurrentLink.tag],
                                    start_url, OutputDir),
                         Markdown(CurrentLink.link_url, main_content_element))
    /\ logged' = "Successfully saved"
    /\ cur' = cur + 1
    /\ main_content_element' = NoElement
    /\ pc' = "NextLink"
    /\ UNCHANGED <<params, clock, collected, linked_page, requested>>

\* a faulty handler: after the IOError the same link is taken up again
WriteFailsRetries ==
    /\ pc = "Writing"
    /\ logged' = "Error saving file"
    /\ main_content_element' = NoElement
    /\ pc' = "NextLink"
    /\ UNCHANGED <<params, clock, collected, cur, linked_page, requested, disk>>

\* open or write raises IOError: logged, and the loop goes on
WriteFails ==
    /\ pc = "Writing"
    /\ logged' = "Error saving file"
    /\ cur' = cur + 1
    /\ main_content_element' = NoElement
    /\ pc' = "NextLink"
    /\ UNCHANGED <<params, clock, collected, linked_page, requested, disk>>

Next ==
    \/ StartGiveUp \/ StartTry \/ StartFetched \/ StartFetchError \/ StartDecodeError
    \/ StartSleep
    \/ LocateSource \/ FindLinks \/ CollectStep \/ CollectEmpty \/ Prepare \/ PrepareFails
    \/ NextLink \/ LinkGiveUp \/ LinkTry \/ LinkFetched \/ LinkFetchError
    \/ LinkDecodeError \/ LinkSleep
    \/ Extract \/ ExtractNoContent \/ MakeFileDir \/ MakeFileDirFails \/ Write \/ WriteFails

Spec == Init /\ [][Next]_vars

\* the program runs on: it takes its next step whenever it has one
FairSpec == Spec /\ WF_vars(Next)

(***************************************************************************)
(* Two runs over one output directory, against a server that answers each  *)
(* URL one way: the start page with one document, each linked page with    *)
(* one page or with an error at every attempt.                             *)
(***************************************************************************)
\* the linked pages such a server may hold: with a body, without any content
ScriptPages ==
    { [sel |-> FALSE, cands |-> <<>>, body |-> TRUE],
      [sel |-> FALSE, cands |-> <<>>, body |-> FALSE] }

\* the answers to the request of a linked page: a page, or an error every time
ScriptAnswers ==
    {[ok |-> TRUE, page |-> p] : p \in ScriptPages}
        \cup {[ok |-> FALSE, page |-> [sel |-> FALSE, cands |-> <<>>, body |-> FALSE]]}

\* unique_links_map as the collection loop leaves it for the anchors found
RECURSIVE LinkSetOf(_, _, _)
LinkSetOf(start, found, n) ==
    IF n = 0 THEN <<>>
    ELSE CollectLink(LinkSetOf(start, found, n - 1), found[n].href, n, start)

\* the servers: a document with its link-source element, and an answer for
\* each link that the document leads to
Scripts(start) ==
    UNION { { [source |-> [byId |-> TRUE, byClass |-> FALSE],
               links |-> found, pages |-> answers] :
              answers \in [1..Len(LinkSetOf(start, found, Len(found))) -> ScriptAnswers] } :
            found \in AnchorLists }

RerunInit ==
    /\ pc = "FetchingStart"
    /\ start_url \in {u \in StartUrls : WellFormed(u)}
    /\ main_content_selector = FALSE
    /\ max_delay = MaxDelayBound
    /\ min_delay = max_delay
    /\ max_retry_duration = MaxBudget
    /\ clock = 0
    /\ html_content = <<>>
    /\ found_by = None
    /\ links = <<>>
    /\ idx = 1
    /\ unique_links_map = <<>>
    /\ cur = 1
    /\ linked_page = <<>>
    /\ main_content_element = NoElement
    /\ requested = {}
    /\ logged = "Fetching starting page"
    /\ disk0 \in InitialDisks
    /\ disk = disk0
    /\ script \in {<<sc>> : sc \in Scripts(start_url)}
    /\ run = 1
    /\ arg = <<>>
    /\ result = <<>>

\* the step takes the answer of the server from the script, and the disk works
Replays ==
    /\ (pc = "StartRequest")
          => (pc' = "LocatingSource" /\ html_content' = <<script[1].source>>)
    /\ (pc = "FindingLinks") => links' = script[1].links
    /\ (pc = "LinkRequest")
          => IF script[1].pages[cur].ok
             THEN pc' = "Extracting" /\ linked_page' = <<script[1].pages[cur].page>>
             ELSE pc' = "LinkSleep"
    /\ pc' # "Crashed"
    /\ logged' # "Error saving file"

\* the program is started again with the same arguments on the disk as it is
Rerun ==
    /\ pc = "Done"
    /\ run = 1
    /\ run' = 2
    /\ disk0' = disk
    /\ pc' = "FetchingStart"
    /\ clock' = 0
    /\ html_content' = <<>>
    /\ found_by' = None
    /\ links' = <<>>
    /\ idx' = 1
    /\ unique_links_map' = <<>>
    /\ cur' = 1
    /\ linked_page' = <<>>
    /\ main_content_element' = NoElement
    /\ requested' = {}
    /\ logged' = "Fetching starting page"
    /\ UNCHANGED <<start_url, main_content_selector, min_delay, max_delay,
                   max_retry_duration, script, disk, arg, result>>

RerunNext ==
    \/ StartTry /\ Replays
    \/ StartFetched /\ Replays
    \/ LocateSource /\ Replays
    \/ FindLinks /\ Replays
    \/ CollectStep /\ Replays
    \/ CollectEmpty /\ Replays
    \/ Prepare /\ Replays
    \/ NextLink /\ Replays
    \/ LinkGiveUp /\ Replays
    \/ LinkTry /\ Replays
    \/ LinkFetched /\ Replays
    \/ LinkFetchError /\ Replays
    \/ LinkSleep /\ Replays
    \/ Extract /\ Replays
    \/ ExtractNoContent /\ Replays
    \/ MakeFileDir /\ Replays
    \/ Write /\ Replays
    \/ Rerun

RerunSpec == RerunInit /\ [][RerunNext]_vars

(***************************************************************************)
(* The computations of process_document applied on their own, to start     *)
(* URLs and link texts beyond those of the runs above.                     *)
(***************************************************************************)
\* start URLs by their parts: scheme, host, path, query and fragment
UrlParts ==
    [scheme : {<<"h", "t", "t", "p">>, <<"h", "t", "t", "p", "s">>},
     host : {<<"h">>, <<"h", ":", "8">>, <<"u", "@", "h">>},
     path : {<<>>, <<"/">>, <<"/", "i">>, <<"/", "d", "/", "i">>, <<"/", "d", "/">>,
             <<"/", "d", "/", "e", "/", "i">>, <<"/", "d", "/", "/", "i">>,
             <<"/", "i", ";", "p">>},
     query : {<<>>, <<"?", "q">>, <<"?", "q", "/", "r">>},
     fragment : {<<>>, <<"#", "f">>, <<"#", "f", "/", "g", "?", "x">>}]

\* the URL made of the parts
UrlOf(parts) ==
    parts.scheme \o <<":", "/", "/">> \o parts.host \o parts.path
        \o parts.query \o parts.fragment

\* the parts of no URL
NoParts ==
    [scheme |-> <<>>, host |-> <<>>, path |-> <<>>, query |-> <<>>, fragment |-> <<>>]

\* the characters of the link texts
NameChars == {"A", "a", " ", "_", "-", "!", "1", "."}

\* the link texts: the strings of at most MaxNameLen characters
LinkTexts == UNION {[1..n -> NameChars] : n \in 0..MaxNameLen}

\* the arguments: a start URL for parent_url_base, a text for filename
Args ==
    {[fn |-> "parent_url_base", x |-> UrlOf(parts), parts |-> parts] : parts \in UrlParts}
        \cup {[fn |-> "filename", x |-> text, parts |-> NoParts] : text \in LinkTexts}

UnitInit ==
    /\ pc = "Apply"
    /\ arg \in Args
    /\ result = <<>>
    /\ start_url = <<>>
    /\ main_content_selector = FALSE
    /\ max_delay = MaxDelayBound
    /\ min_delay = max_delay
    /\ max_retry_duration = MaxBudget
    /\ clock = 0
    /\ html_content = <<>>
    /\ found_by = None
    /\ links = <<>>
    /\ idx = 1
    /\ unique_links_map = <<>>
    /\ cur = 1
    /\ linked_page = <<>>
    /\ main_content_element = NoElement
    /\ requested = {}
    /\ logged = "Fetching starting page"
    /\ disk0 = [dirs |-> {}, files |-> <<>>]
    /\ disk = disk0
    /\ script = <<>>
    /\ run = 1

\* the variables of the runs, which the computations on their own leave alone
run_state ==
    <<start_url, main_content_selector, min_delay, max_delay, max_retry_duration,
      clock, html_content, found_by, links, idx, unique_links_map, cur, linked_page,
      main_content_element, requested, logged, disk, disk0, script, run>>

\* parent_url_base is computed for the start URL
ComputeParentUrlBase ==
    /\ pc = "Apply"
    /\ arg.fn = "parent_url_base"
    /\ result' = ParentUrlBase(arg.x)
    /\ pc' = "Applied"
    /\ UNCHANGED <<arg, run_state>>

\* filename is computed for the text
ComputeFilename ==
    /\ pc = "Apply"
    /\ arg.fn = "filename"
    /\ result' = Sanitize(arg.x)
    /\ pc' = "Applied"
    /\ UNCHANGED <<arg, run_state>>

\* filename is computed again, for the file name computed before
ComputeFilenameAgain ==
    /\ pc = "Applied"
    /\ arg.fn = "filename"
    /\ result' = Sanitize(result)
    /\ pc' = "Reapplied"
    /\ UNCHANGED <<arg, run_state>>

UnitNext == ComputeParentUrlBase \/ ComputeFilename \/ ComputeFilenameAgain

UnitSpec == UnitInit /\ [][UnitNext]_vars

(***************************************************************************)
(* The lookups of process_document in a parsed page applied on their own:  *)
(* the main content of a linked page, the link source element of the start *)
(* page.  A page is the list of its elements in document order.            *)
(***************************************************************************)
\* the tags and the classes of irrelevant_selectors
IrrelevantTags == {"nav", "footer", "script", "style", "header"}

IrrelevantClasses == {"header", "footer", "navigation", "sidebar", "menu", "comments"}

\* the tags of the potential content containers
ContainerTags == {"div", "article", "main"}

\* the elements of a linked page: tag, class, whether main_content_selector
\* matches the element, the length of its stripped text
PageElements ==
    [tag : {"div", "nav", "p"}, class : {"c", "sidebar"}, sel : BOOLEAN,
     len : {100, 101, 150}]

\* the linked pages: without a body and so without content, or with a body of
\* some class (body: the class, or "none") and the elements within it
LinkedPages ==
    {[body |-> "none", elements |-> <<>>]}
        \cup [body : {"c", "menu"},
              elements : UNION {[1..n -> PageElements] : n \in 0..MaxElements}]

\* the page after element.decompose() of all that irrelevant_selectors select
Decompose(page) ==
    LET Kept(element) ==
            element.tag \notin IrrelevantTags /\ element.class \notin IrrelevantClasses
    IN  IF page.body \in IrrelevantClasses
        THEN [body |-> "none", elements |-> <<>>]
        ELSE [body |-> page.body, elements |-> SelectSeq(page.elements, Kept)]

\* what the extraction reads of link_soup: whether select_one finds an element,
\* the text lengths of the elements find_all returns, whether find('body') does
LinkSoup(page) ==
    LET Container(element) == element.tag \in ContainerTags
        Lengths(elements) == [i \in 1..Len(elements) |-> elements[i].len]
        Read(soup) ==
            [sel |-> \E i \in 1..Len(soup.elements) : soup.elements[i].sel,
             cands |-> Lengths(SelectSeq(soup.elements, Container)),
             body |-> soup.body # "none"]
    IN  Read(Decompose(page))

\* the elements of a start page: whether the id of the element is
\* link_source_selector, whether its class is
SourceElements == [id : BOOLEAN, class : BOOLEAN]

\* the start pages
StartPages ==
    [body : {"c"},
     elements : UNION {[1..n -> SourceElements] : n \in 0..(MaxElements + 1)}]

\* a faulty lookup: the class is looked up first, the id when no class matches
LinkSourceElementClassFirst(elements) ==
    LET ById == {i \in 1..Len(elements) : elements[i].id}
        ByClass == {i \in 1..Len(elements) : elements[i].class}
        First(found) == CHOOSE i \in found : \A j \in found : i <= j
    IN  IF ByClass # {} THEN [found_by |-> "Class", index |-> First(ByClass)]
        ELSE IF ById # {} THEN [found_by |-> "ID", index |-> First(ById)]
        ELSE [found_by |-> "Class", index |-> 0]

\* link_source_element and found_by: soup.find(id=...), then soup.find(class_=...)
\* when that found nothing (index 0: no element)
LinkSourceElement(elements) ==
    LET ById == {i \in 1..Len(elements) : elements[i].id}
        ByClass == {i \in 1..Len(elements) : elements[i].class}
        First(found) == CHOOSE i \in found : \A j \in found : i <= j
    IN  IF ById # {} THEN [found_by |-> "ID", index |-> First(ById)]
        ELSE IF ByClass # {} THEN [found_by |-> "Class", index |-> First(ByClass)]
        ELSE [found_by |-> "Class", index |-> 0]

\* the arguments: a linked page and whether main_content_selector is given,
\* or a start page
PageArgs ==
    {[fn |-> "main_content_element", page |-> page, selector |-> given] :
        page \in LinkedPages, given \in BOOLEAN}
        \cup {[fn |-> "link_source_element", page |-> page, selector |-> TRUE] :
                 page \in StartPages}

PageInit ==
    /\ pc = "Apply"
    /\ arg \in PageArgs
    /\ result = <<>>
    /\ start_url = <<>>
    /\ main_content_selector = FALSE
    /\ max_delay = MaxDelayBound
    /\ min_delay = max_delay
    /\ max_retry_duration = MaxBudget
    /\ clock = 0
    /\ html_content = <<>>
    /\ found_by = None
    /\ links = <<>>
    /\ idx = 1
    /\ unique_links_map = <<>>
    /\ cur = 1
    /\ linked_page = <<>>
    /\ main_content_element = NoElement
    /\ requested = {}
    /\ logged = "Fetching starting page"
    /\ disk0 = [dirs |-> {}, files |-> <<>>]
    /\ disk = disk0
    /\ script = <<>>
    /\ run = 1

\* the irrelevant elements are removed and the main content is chosen; the
\* link is skipped when there is none
ComputeMainContent ==
    /\ pc = "Apply"
    /\ arg.fn = "main_content_element"
    /\ result' = ExtractMain(LinkSoup(arg.page), arg.selector)
    /\ pc' = IF result' = NoElement THEN "Skipped" ELSE "Applied"
    /\ UNCHANGED <<arg, run_state>>

\* the link source element is looked up; the function returns when there is none
ComputeLinkSource ==
    /\ pc = "Apply"
    /\ arg.fn = "link_source_element"
    /\ result' = LinkSourceElement(arg.page.elements)
    /\ pc' = IF result'.index = 0 THEN "NotFound" ELSE "Applied"
    /\ UNCHANGED <<arg, run_state>>

PageNext == ComputeMainContent \/ ComputeLinkSource

PageSpec == PageInit /\ [][PageNext]_vars

(***************************************************************************)
(* The properties of the program.                                          *)
(***************************************************************************)
\* the fragment-stripped absolute URL of the anchor at position i of links
StrippedUrl(i) == UrlWithoutFragment(UrlJoin(start_url, links[i].href))

\* the anchor at position i has an href and its URL lies under the scope prefix
InScope(i) ==
    /\ links[i].href # <<>>
    /\ StartsWith(StrippedUrl(i), ParentUrlBase(start_url))

\* the anchors the collection loop has been through
Seen == 1..(idx - 1)

\* the files the run has added to the disk
NewFiles == DOMAIN disk.files \ DOMAIN disk0.files

\* the stem of the file name of the link the processing loop is at
CurrentStem ==
    Sanitize(FilenameBase(links[CurrentLink.tag].text,
                          UrlWithoutFragment(CurrentLink.link_url)))

\* the k-th name the uniqueness loop tries: stem.md, stem_1.md, stem_2.md, ...
CandidateName(k) ==
    NormPath(MarkdownFilename(CurrentDir,
                              IF k = 0 THEN CurrentStem
                              ELSE CurrentStem \o <<"_", ToString(k)>>))

\* C1: in ProcessingLinks a link whose fetch runs out of budget, or whose page
\* has no content, is skipped without ending the batch: the loop moves to the
\* next link, every link up to the current one has been requested (all of them
\* once the run is Done), a page with content goes on to be written, and the
\* write adds the file of the link unless the write itself reports an error.
C1_Step ==
    /\ (pc = "LinkCheck" /\ pc' # "LinkRequest")
          => (pc' = "NextLink" /\ cur' = cur + 1 /\ disk' = disk)
    /\ (pc = "Extracting" /\ ExtractMain(linked_page[1], main_content_selector) = NoElement)
          => (pc' = "NextLink" /\ cur' = cur + 1 /\ disk' = disk)
    /\ (pc = "NextLink" /\ cur <= Len(unique_links_map))
          => (pc' = "LinkCheck" /\ clock' = 0 /\ cur' = cur)
    /\ (pc = "LinkCheck" /\ clock = 0)
          => (pc' = "LinkRequest" /\ unique_links_map[cur].link_url \in requested')
    /\ (pc = "Extracting" /\ ExtractMain(linked_page[1], main_content_selector) # NoElement)
          => (pc' = "MakingDirs" /\ cur' = cur)
    /\ (pc = "Writing")
          => /\ pc' = "NextLink" /\ cur' = cur + 1
             /\ \/ \E q \in DOMAIN disk'.files \ DOMAIN disk.files :
                      disk'.files[q] = Markdown(unique_links_map[cur].link_url,
                                                main_content_element)
                \/ logged' = "Error saving file"
    /\ (pc' \in {"NextLink", "Done"})
          => \A k \in 1..(cur' - 1) : unique_links_map'[k].link_url \in requested'
    /\ (pc' = "Done") => cur' = Len(unique_links_map') + 1

C1_SkippedLinkDoesNotAbort == [][C1_Step]_vars

\* C1 witness: a batch of two links is Done, the first link left no file and
\* the second link, fetched after it, has its file
C1_Witness ==
    /\ pc = "Done"
    /\ Len(unique_links_map) = 2
    /\ logged = "Successfully saved"
    /\ Cardinality(NewFiles) = 1
    /\ \E q \in NewFiles : disk.files[q] = unique_links_map[2].link_url

\* C2: when the retry loop of the start page gives up, the run is Failed, and
\* in Failed no link was collected, no linked page was requested and nothing
\* was created on disk; Failed is entered only from the loop test of the start
\* page with the budget used up.
C2_Step ==
    /\ (pc = "FetchingStart" /\ pc' # "StartRequest") => pc' = "Failed"
    /\ (pc' = "Failed")
          => /\ pc = "FetchingStart"
             /\ clock >= max_retry_duration
             /\ html_content' = <<>>
             /\ links' = <<>>
             /\ unique_links_map' = <<>>
             /\ requested' = {}
             /\ disk' = disk0'

C2_StartFetchFailure == [][C2_Step]_vars

\* C2 witness: the run is Failed after at least one failed attempt
C2_Witness ==
    /\ pc = "Failed"
    /\ clock > max_retry_duration
    /\ logged = "Failed to fetch starting page after"

\* C3: when no element matches the selector by id or by class, or the element
\* has no anchor, or no anchor is in scope, the run is Empty; in Empty no
\* linked page was requested, nothing was written and the output directory
\* was not created.
C3_Step ==
    /\ (pc = "LocatingSource" /\ ~html_content[1].byId /\ ~html_content[1].byClass)
          => pc' = "Empty"
    /\ (pc = "FindingLinks" /\ links' = <<>>) => pc' = "Empty"
    /\ (pc = "CollectingLinks" /\ idx > Len(links)
            /\ \A i \in 1..Len(links) : ~InScope(i))
          => pc' = "Empty"
    /\ (pc' = "Empty")
          => /\ requested' = {}
             /\ disk' = disk0'
             /\ unique_links_map' = <<>>

C3_NothingToProcess == [][C3_Step]_vars

\* C3 witness: the run is Empty with anchors found, none of them in scope, on
\* a disk without the output directory
C3_Witness ==
    /\ pc = "Empty"
    /\ Len(links) > 0
    /\ \E i \in 1..Len(links) : links[i].href # <<>>
    /\ NormPath(OutputDir) \notin disk.dirs

\* C4: a fetch gives up no later than max_retry_duration plus one attempt plus
\* one sleep of at most max_delay: an attempt begins within the budget, the
\* sleep after it begins within the budget plus the attempt, and the loop test
\* that follows is within the budget plus the attempt plus max_delay.
C4_GiveUpBound ==
    /\ (pc \in {"StartRequest", "LinkRequest"}) => clock <= max_retry_duration
    /\ (pc \in {"StartSleep", "LinkSleep"})
          => clock <= max_retry_duration + MaxAttemptTime
    /\ clock <= max_retry_duration + MaxAttemptTime + max_delay

\* C4 witness: a fetch has given up at the very end of the bound
C4_Witness ==
    /\ pc \in {"Failed", "NextLink"}
    /\ logged \in {"Failed to fetch starting page after",
                   "Failed to fetch linked page after"}
    /\ clock = max_retry_duration + MaxAttemptTime + max_delay

\* the terminal states of the run
Terminal == {"Done", "Failed", "Empty"}

\* C5: a run stops in Done, Failed or Empty only: in any other state the
\* program has a next step.
C5_EndsInTerminalState == pc \in Terminal \/ ENABLED Next

\* the collection loop is at work or has just ended
Collecting == pc = "CollectingLinks"

\* outside the collection the anchors, the position and the map stay as they are
MapFrozen ==
    (pc \notin {"FindingLinks", "CollectingLinks"})
        => UNCHANGED <<links, idx, unique_links_map>>

\* no two links of unique_links_map have the same fragment-stripped URL
NoDuplicateUrls ==
    \A i \in 1..Len(unique_links_map) : \A j \in 1..Len(unique_links_map) :
        (i # j) => UrlWithoutFragment(unique_links_map[i].link_url)
                      # UrlWithoutFragment(unique_links_map[j].link_url)

\* C6: unique_links_map never holds two links with the same fragment-stripped
\* URL: there is no such pair at any point of the collection loop, its end
\* included, and no step outside the loop changes the map.
C6_NoDuplicateUrls == [][(Collecting => NoDuplicateUrls) /\ MapFrozen]_vars

\* C6 witness: two anchors in scope that differ only in their fragment have
\* been collected into one link
C6_Witness ==
    /\ pc = "NextLink"
    /\ Len(unique_links_map) = 1
    /\ \E i \in 1..Len(links) : \E j \in 1..Len(links) :
          /\ InScope(i) /\ InScope(j)
          /\ links[i].href # links[j].href
          /\ StrippedUrl(i) = StrippedUrl(j)

\* the links are in the order of the anchors they were taken from, and the
\* anchor of a link is the first anchor with the URL of the link
FirstOccurrenceOrder ==
    /\ \A k \in 1..Len(unique_links_map) :
          /\ unique_links_map[k].tag \in Seen
          /\ InScope(unique_links_map[k].tag)
          /\ StrippedUrl(unique_links_map[k].tag) = unique_links_map[k].key
          /\ \A i \in 1..(unique_links_map[k].tag - 1) :
                ~(links[i].href # <<>> /\ StrippedUrl(i) = unique_links_map[k].key)
    /\ \A k \in 1..(Len(unique_links_map) - 1) :
          unique_links_map[k].tag < unique_links_map[k + 1].tag

\* C7: the links of unique_links_map are in the order in which their URLs
\* first occur in the document, and the anchor kept for a URL (its tag and so
\* its text) is the first anchor with that fragment-stripped URL: this holds
\* at every point of the collection loop, its end included, and no step
\* outside the loop changes the map.
C7_FirstOccurrenceOrder == [][(Collecting => FirstOccurrenceOrder) /\ MapFrozen]_vars

\* C7 witness: two anchors with one URL and different texts have been
\* collected, and the link carries the first of them
C7_Witness ==
    /\ pc = "NextLink"
    /\ \E i \in 1..Len(links) : \E j \in 1..Len(links) :
          /\ i < j
          /\ InScope(i) /\ InScope(j)
          /\ StrippedUrl(i) = StrippedUrl(j)
          /\ links[i].text # links[j].text
          /\ \E k \in 1..Len(unique_links_map) : unique_links_map[k].tag = i

\* the keys of the map are the URLs in scope of the anchors gone through
ExactlyInScope ==
    {unique_links_map[k].key : k \in 1..Len(unique_links_map)}
        = {StrippedUrl(i) : i \in {s \in Seen : InScope(s)}}

\* C8: the URLs of unique_links_map are exactly the fragment-stripped URLs of
\* the anchors gone through that have an href and start with the scope prefix:
\* this holds at every point of the collection loop, so for all anchors at
\* its end, and no step outside the loop changes the map.
C8_ExactlyInScope == [][(Collecting => ExactlyInScope) /\ MapFrozen]_vars

\* C8 witness: collection is over for a document with an anchor out of scope
\* and an anchor in scope, and one link was kept
C8_Witness ==
    /\ pc = "NextLink"
    /\ Len(unique_links_map) = 1
    /\ \E i \in 1..Len(links) : links[i].href # <<>> /\ ~InScope(i)
    /\ \E j \in 1..Len(links) : InScope(j)

\* C9 as the specification states it: the URL stored in each link, and so each
\* URL requested, is the fragment-stripped URL of its anchor.
C9_StoredUrlIsStripped ==
    /\ \A k \in 1..Len(unique_links_map) :
          unique_links_map[k].link_url = StrippedUrl(unique_links_map[k].tag)
    /\ \A u \in requested : u = UrlWithoutFragment(u)

\* a link is stored under the fragment-stripped URL, and the URL stored in it
\* is the absolute URL of its anchor as urljoin gives it
StoredUrlKeepsFragment ==
    \A k \in 1..Len(unique_links_map) :
        /\ unique_links_map[k].link_url
              = UrlJoin(start_url, links[unique_links_map[k].tag].href)
        /\ unique_links_map[k].key
              = UrlWithoutFragment(unique_links_map[k].link_url)

\* the URLs requested are URLs stored in the links, that of the current link
\* among them while it is being fetched
RequestsStoredUrls ==
    /\ requested \subseteq
          {unique_links_map[k].link_url : k \in 1..Len(unique_links_map)}
    /\ (pc = "LinkRequest") => unique_links_map[cur].link_url \in requested

\* C9 as the program has it: a link is stored under the fragment-stripped URL,
\* and the URL stored in it, which is the URL requested, is the absolute URL
\* of its first anchor with the fragment kept.
C9_StoredUrlKeepsFragment ==
    [][(Collecting => StoredUrlKeepsFragment) /\ MapFrozen /\ RequestsStoredUrls']_vars

\* C9 witness: a URL with a fragment has been requested
C9_Witness ==
    \E u \in requested : u # UrlWithoutFragment(u)

\* C10: a write goes to a path that does not exist yet: the name is stem.md
\* when it is free and else stem_k.md for the least k >= 1 that is free, and
\* every file that was on disk before the write is there after it with the
\* same content.
C10_Step ==
    (pc = "Writing" /\ disk' # disk)
        => \E k \in 0..(Cardinality(DOMAIN disk.files) + Cardinality(disk.dirs)) :
              /\ \A j \in 0..(k - 1) :
                    CandidateName(j) \in DOMAIN disk.files \cup disk.dirs
              /\ CandidateName(k) \notin DOMAIN disk.files \cup disk.dirs
              /\ DOMAIN disk'.files = DOMAIN disk.files \cup {CandidateName(k)}
              /\ \A q \in DOMAIN disk.files : disk'.files[q] = disk.files[q]
              /\ disk'.dirs = disk.dirs

C10_NeverOverwrites == [][C10_Step]_vars

\* C10 witness: two links with the stem a_b were written next to an older
\* a_b.md, which is as it was: the files are a_b.md, a_b_1.md and a_b_2.md
C10_Witness ==
    /\ <<"o", "/", "d", "/", "a", "_", "b", ".", "m", "d">> \in DOMAIN disk.files
    /\ disk.files[<<"o", "/", "d", "/", "a", "_", "b", ".", "m", "d">>] = OldContent
    /\ <<"o", "/", "d", "/", "a", "_", "b", "_", "1", ".", "m", "d">> \in DOMAIN disk.files
    /\ <<"o", "/", "d", "/", "a", "_", "b", "_", "2", ".", "m", "d">> \in DOMAIN disk.files

\* the directory, the stem and the j-th candidate name of the file of link k
LinkDir(k) ==
    FileOutputDir(UrlWithoutFragment(unique_links_map[k].link_url), start_url, OutputDir)

LinkStem(k) ==
    Sanitize(FilenameBase(links[unique_links_map[k].tag].text,
                          UrlWithoutFragment(unique_links_map[k].link_url)))

LinkName(k, j) ==
    NormPath(MarkdownFilename(LinkDir(k),
                              IF j = 0 THEN LinkStem(k)
                              ELSE LinkStem(k) \o <<"_", ToString(j)>>))

\* the links the server answers with a page that has content
Processed ==
    {k \in 1..Len(script[1].pages) :
        /\ script[1].pages[k].ok
        /\ ExtractMain(script[1].pages[k].page, main_content_selector) # NoElement}

\* C11: in a second run with the same arguments and the same server answers
\* every file the first run left is kept with its content, and at the end of
\* the second run each processed link has one new file, with a suffixed name
\* (its name without suffix is a file of the first run), so the tree after two
\* runs differs from the tree after one.
C11_RerunAddsSuffixedFiles ==
    (run = 2)
        => /\ \A q \in DOMAIN disk0.files :
                 q \in DOMAIN disk.files /\ disk.files[q] = disk0.files[q]
           /\ (pc = "Done")
                 => /\ Cardinality(NewFiles) = Cardinality(Processed)
                    /\ \A k \in Processed :
                          /\ LinkName(k, 0) \in DOMAIN disk0.files
                          /\ \E j \in 1..Cardinality(DOMAIN disk.files) :
                                /\ LinkName(k, j) \in NewFiles
                                /\ disk.files[LinkName(k, j)]
                                      = unique_links_map[k].link_url
                    /\ (Processed # {}) => disk # disk0

\* C11 witness: the second run is over and has added the files of two links
C11_Witness ==
    /\ run = 2
    /\ pc = "Done"
    /\ Cardinality(Processed) = 2
    /\ Cardinality(NewFiles) = 2

\* the root of the output tree: output_dir/output_root_name, or output_dir
OutputRoot ==
    NormPath(IF OutputRootName(start_url) # <<>>
             THEN PathJoin2(OutputDir, OutputRootName(start_url))
             ELSE OutputDir)

\* C12: every file the run writes lies under the root of the output tree.
C12_FilesUnderRoot ==
    \A q \in NewFiles : StartsWith(q, OutputRoot \o <<"/">>)

\* C13: a run on a malformed start URL spends no retry and no sleep on it.
C13_MalformedFailsFast ==
    (~WellFormed(start_url))
        => /\ pc # "StartSleep"
           /\ logged # "Failed to fetch starting page. Retrying"

\* C14: whatever the disk does while the output of a link is produced, the
\* step stays in the loop: making the directory leads to the write or, with
\* the failure logged, to the next link, and the write leads to the next link.
C14_Step ==
    /\ (pc = "MakingDirs")
          => \/ pc' = "Writing"
             \/ (pc' = "NextLink" /\ cur' = cur + 1 /\ logged' # logged)
    /\ (pc = "Writing") => (pc' = "NextLink" /\ cur' = cur + 1)

C14_DiskFailureStaysInLoop == [][C14_Step]_vars

\* the index of the last "/" of a path, 0 when it has none
LastSlash(path) ==
    IF \E i \in 1..Len(path) : path[i] = "/"
    THEN CHOOSE i \in 1..Len(path) :
            path[i] = "/" /\ \A j \in (i + 1)..Len(path) : path[j] # "/"
    ELSE 0

\* the parent directory of a path: the path up to its last "/", with one "/"
\* at its end
ParentDirectory(path) ==
    RStrip(SubSeq(path, 1, LastSlash(path)), {"/"}) \o <<"/">>

\* the path of the parts of a URL: what is before the ";" of its last segment
PathOf(parts) ==
    IF \E i \in 1..Len(parts.path) : parts.path[i] = ";"
    THEN SubSeq(parts.path, 1, (CHOOSE i \in 1..Len(parts.path) : parts.path[i] = ";") - 1)
    ELSE parts.path

\* C15: for every start URL, parent_url_base ends with "/", has no query and
\* no fragment, and is scheme://host followed by the parent directory of the
\* path of the start URL.
C15_ScopeShape ==
    (pc = "Applied" /\ arg.fn = "parent_url_base")
        => /\ EndsWith(result, <<"/">>)
           /\ \A i \in 1..Len(result) : result[i] \notin {"?", "#"}
           /\ result = arg.parts.scheme \o <<":", "/", "/">> \o arg.parts.host
                          \o ParentDirectory(PathOf(arg.parts))

\* C15 witness: parent_url_base was computed for a start URL with a query and
\* a fragment and a page two directories down
C15_Witness ==
    /\ pc = "Applied"
    /\ arg.fn = "parent_url_base"
    /\ arg.parts.query # <<>>
    /\ arg.parts.fragment # <<>>
    /\ arg.parts.path = <<"/", "d", "/", "e", "/", "i">>
    /\ result = arg.parts.scheme \o <<":", "/", "/">> \o arg.parts.host
                   \o <<"/", "d", "/", "e", "/">>

\* C16: the sanitization of a file name that the sanitization gave is that
\* file name.
C16_Step ==
    (pc = "Applied" /\ arg.fn = "filename") => result' = result

C16_SanitizeIdempotent == [][C16_Step]_vars

\* C16 witness: the sanitization was applied twice to a text that it changes
\* in case, in spaces, in invalid characters and at the ends
C16_Witness ==
    /\ pc = "Reapplied"
    /\ arg.x = <<"_", "A", "!">>
    /\ result = <<"a">>

\* the loop tests and the attempts of both retry loops
LoopTests == {"FetchingStart", "LinkCheck"}

Attempts == {"StartRequest", "LinkRequest"}

\* C17 as the specification states it: the loop test gives up when the time
\* elapsed is greater than or equal to max_retry_duration, and no attempt is
\* begun at such an instant.
C17_Step ==
    /\ (pc \in LoopTests /\ clock >= max_retry_duration) => pc' \notin Attempts
    /\ (pc' \in Attempts) => clock' < max_retry_duration

C17_GivesUpAtBudget == [][C17_Step]_vars

\* C17 as the program has it: the loop test gives up when the time elapsed is
\* greater than max_retry_duration, and else begins an attempt: none is begun
\* at an instant after the budget, one is begun at the very instant at which
\* the time elapsed equals max_retry_duration.
C17_AmendedStep ==
    /\ (pc \in LoopTests /\ clock > max_retry_duration)
          => (pc' \in {"Failed", "NextLink"} /\ clock' = clock)
    /\ (pc \in LoopTests /\ clock <= max_retry_duration)
          => (pc' \in Attempts /\ clock' = clock)
    /\ (pc' \in Attempts) => clock' <= max_retry_duration

C17_GivesUpAfterBudget == [][C17_AmendedStep]_vars

\* C17 witness: an attempt is under way that began with the budget just reached
C17_Witness ==
    /\ pc \in Attempts
    /\ clock = max_retry_duration
    /\ clock > 0

\* C18: each link's elapsed time is measured from the start of its own fetch:
\* the for statement starts every link at elapsed time 0, whatever the fetch
\* before has spent, the first loop test of every link passes and begins an
\* attempt, and so every link the loop has gone past has been requested.
C18_Step ==
    /\ (pc = "NextLink" /\ pc' = "LinkCheck") => clock' = 0
    /\ (pc = "LinkCheck" /\ logged = "Fetching linked page")
          => (clock = 0 /\ pc' = "LinkRequest")
    /\ (pc = "NextLink")
          => \A k \in 1..(cur - 1) :
                FilteredLinksInfo(unique_links_map)[k].link_url \in requested

C18_BudgetPerLink == [][C18_Step]_vars

\* C18 witness: the first link was requested, has spent more than the whole
\* budget and was given up, and the for statement is about to start the fetch
\* of a second link
C18_Witness ==
    /\ pc = "NextLink"
    /\ cur = 2
    /\ logged = "Failed to fetch linked page after"
    /\ clock > max_retry_duration
    /\ cur <= Len(FilteredLinksInfo(unique_links_map))
    /\ FilteredLinksInfo(unique_links_map)[1].link_url \in requested

\* the states of the retry loop of the start page and of the one of a link
StartLoop == {"FetchingStart", "StartRequest", "StartSleep"}

LinkLoop == {"LinkCheck", "LinkRequest", "LinkSleep"}

\* where a fetch is, whichever loop runs it, and how it has ended
Phase(p) ==
    CASE p \in {"FetchingStart", "LinkCheck"} -> "check"
      [] p \in {"StartRequest", "LinkRequest"} -> "attempt"
      [] p \in {"StartSleep", "LinkSleep"} -> "sleep"
      [] p \in {"LocatingSource", "Extracting"} -> "body"
      [] p \in {"Failed", "NextLink"} -> "FetchFailed"
      [] p = "Crashed" -> "raised"
      [] OTHER -> "outside"

\* the message of a fetch without the name of the page
LogKind(message) ==
    CASE message \in {"Failed to fetch starting page after",
                      "Failed to fetch linked page after"} -> "Failed to fetch after"
      [] message \in {"Failed to fetch starting page. Retrying",
                      "Failed to fetch linked page. Retrying"} -> "Retrying"
      [] OTHER -> "Fetching"

\* one step of a fetch: from phase ph at elapsed time c, the message logged
\* last being message, to phase ph2 at c2 with message2
FetchStep(ph, c, message, ph2, c2, message2) ==
    CASE ph = "check" ->
            /\ c2 = c
            /\ IF c > max_retry_duration
               THEN ph2 = "FetchFailed" /\ message2 = "Failed to fetch after"
               ELSE ph2 = "attempt" /\ message2 = message
      [] ph = "attempt" ->
            \/ ph2 = "body" /\ message2 = message
            \/ ph2 = "raised" /\ c2 = c /\ message2 = message
            \/ /\ ph2 = "sleep"
               /\ (c2 - c) \in 0..MaxAttemptTime
               /\ message2 = "Retrying"
      [] ph = "sleep" ->
            /\ ph2 = "check"
            /\ (c2 - c) \in min_delay..max_delay
            /\ message2 = message
      [] OTHER -> FALSE

\* C19: the retry loop of the start page and the one of a link are the same
\* state machine: every step of either loop is the step FetchStep allows from
\* the loop's phase, elapsed time and budget, with the same test, the same
\* attempt outcomes, the same sleep and the same two ends (a body, or
\* FetchFailed); each loop stays within its own states until it ends; and in
\* either loop a test can be followed by its one successor, an attempt by a
\* failure or, for a URL that can be sent, by a body, and a sleep by the next
\* test.
C19_Step ==
    /\ (pc \in StartLoop \cup LinkLoop)
          => FetchStep(Phase(pc), clock, LogKind(logged),
                       Phase(pc'), clock', LogKind(logged'))
    /\ (pc \in StartLoop)
          => pc' \in StartLoop \cup {"LocatingSource", "Failed", "Crashed"}
    /\ (pc \in LinkLoop)
          => pc' \in LinkLoop \cup {"Extracting", "NextLink", "Crashed"}
    /\ (pc = "FetchingStart") => ENABLED (StartTry \/ StartGiveUp)
    /\ (pc = "LinkCheck") => ENABLED (LinkTry \/ LinkGiveUp)
    /\ (pc = "StartRequest") => ENABLED StartFetchError
    /\ (pc = "LinkRequest") => ENABLED LinkFetchError
    /\ (pc = "StartRequest" /\ WellFormed(start_url)) => ENABLED StartFetched
    /\ (pc = "LinkRequest") => ENABLED LinkFetched
    /\ (pc = "StartSleep") => ENABLED StartSleep
    /\ (pc = "LinkSleep") => ENABLED LinkSleep

C19_SameRetryLoop == [][C19_Step]_vars

\* C19 witness: the loop of a link has been through a test, a failed attempt
\* and a sleep, and is at a test it passes, as the loop of the start page was
C19_Witness ==
    /\ pc = "LinkCheck"
    /\ logged = "Failed to fetch linked page. Retrying"
    /\ clock > 0
    /\ clock <= max_retry_duration

\* the backoff sleeps of both retry loops
Sleeps == {"StartSleep", "LinkSleep"}

\* C20: within a fetch, an attempt that fails is followed by a sleep, a sleep
\* is one sleep of a duration within [min_delay, max_delay] and is followed by
\* the next loop test, a sleep is entered from a failed attempt only (so none
\* comes before the first attempt or after a success), and a fetch gives up
\* only at a test that follows the sleep of the last failed attempt.
C20_Step ==
    /\ (pc \in Attempts /\ Phase(pc') \notin {"body", "raised"})
          => (pc' \in Sleeps /\ LogKind(logged') = "Retrying")
    /\ (pc' \in Sleeps) => pc \in Attempts
    /\ (pc \in Sleeps)
          => /\ pc' \in LoopTests
             /\ clock' - clock >= min_delay
             /\ clock' - clock <= max_delay
    /\ (Phase(pc) = "body") => pc' \notin Sleeps \cup LoopTests \cup Attempts
    /\ (pc \in LoopTests /\ LogKind(logged) = "Fetching") => pc' \in Attempts
    /\ (pc \in LoopTests /\ pc' \notin Attempts)
          => LogKind(logged) = "Retrying"

LinkStates == LinkLoop \cup {"NextLink", "Extracting", "MakingDirs", "Writing"}

\* C21: the links are processed one after the other in the order of the list,
\* each once: the position in the list only moves on by one, and only when the
\* link it is at was written or skipped; every attempt is for the link at the
\* position; and the first attempt for a link is for a URL not requested
\* before, made when all the links before it have been requested.
C21_Step ==
    /\ (pc \in LinkStates) => cur' \in {cur, cur + 1}
    /\ (pc \in LinkStates /\ cur' = cur + 1)
          => /\ pc \in {"LinkCheck", "Extracting", "Writing"}
             /\ pc' = "NextLink"
             /\ logged' \in {"Failed to fetch linked page after",
                             "Could not find any main content",
                             "Successfully saved", "Error saving file"}
    /\ (pc \in LinkStates /\ pc' = "NextLink") => cur' = cur + 1
    /\ (pc = "LinkCheck" /\ pc' = "LinkRequest")
          => requested' = requested \cup {CurrentLink.link_url}
    /\ (pc = "LinkCheck" /\ pc' = "LinkRequest" /\ logged = "Fetching linked page")
          => /\ CurrentLink.link_url \notin requested
             /\ \A k \in 1..(cur - 1) :
                   FilteredLinksInfo(unique_links_map)[k].link_url \in requested
    /\ (pc \in LinkStates \ {"LinkCheck"}) => requested' = requested

C21_SequentialOnce == [][C21_Step]_vars

\* C21 witness: the first link was written to disk, and the first attempt for
\* the second link is under way
C21_Witness ==
    /\ pc = "LinkRequest"
    /\ cur = 2
    /\ logged = "Fetching linked page"
    /\ NewFiles # {}
    /\ Cardinality(requested) = 2

\* the positions of the elements of a page that the removal leaves
RemainingAt(page) ==
    {i \in 1..Len(page.elements) :
        /\ page.body \notin IrrelevantClasses
        /\ page.elements[i].tag \notin IrrelevantTags
        /\ page.elements[i].class \notin IrrelevantClasses}

\* those of them that are containers
ContainersAt(page) == {i \in RemainingAt(page) : page.elements[i].tag \in ContainerTags}

\* those of the containers with text enough
QualifyingAt(page) == {i \in ContainersAt(page) : page.elements[i].len > TextThreshold}

\* whether main_content_selector is given and matches an element that remains
SelectorMatches(a) ==
    a.selector /\ \E i \in RemainingAt(a.page) : a.page.elements[i].sel

\* whether the page has a body after the removal
BodyRemains(page) == page.body # "none" /\ page.body \notin IrrelevantClasses

ContainerAt(page, k) ==
    CHOOSE i \in ContainersAt(page) :
        Cardinality({j \in ContainersAt(page) : j <= i}) = k

\* C23: when the heuristic is used, it finds a candidate exactly when a
\* div / article / main element that remains has more than 100 characters of
\* text, and the candidate is such an element of the greatest text length, the
\* first of them in document order; an element of 100 characters is never it.
C23_HeuristicChoice ==
    (pc # "Apply" /\ arg.fn = "main_content_element" /\ ~SelectorMatches(arg))
        => /\ result.kind = "candidate" <=> QualifyingAt(arg.page) # {}
           /\ result.kind = "candidate"
                 => LET page == arg.page
                        best == ContainerAt(page, result.index)
                    IN  /\ best \in QualifyingAt(page)
                        /\ page.elements[best].len # 100
                        /\ \A j \in QualifyingAt(page) :
                              /\ page.elements[j].len <= page.elements[best].len
                              /\ j < best
                                    => page.elements[j].len < page.elements[best].len

\* C23 witness: two containers of the same, sufficient text length remain and
\* the first was chosen
C23_Witness ==
    /\ pc = "Applied"
    /\ arg.fn = "main_content_element"
    /\ ContainersAt(arg.page) = {1, 2}
    /\ arg.page.elements[1].len = 150
    /\ arg.page.elements[2].len = 150
    /\ result = [kind |-> "candidate", index |-> 1]

\* C24: the link source element is the first element whose id is
\* link_source_selector whenever there is one, whatever elements have it as
\* their class; else the first element whose class it is; and the lookup
\* fails only when no element has it as its id or as its class.
C24_IdBeforeClass ==
    (pc # "Apply" /\ arg.fn = "link_source_element")
        => LET elements == arg.page.elements
               ById == {i \in 1..Len(elements) : elements[i].id}
               ByClass == {i \in 1..Len(elements) : elements[i].class}
           IN  /\ (ById # {})
                     => /\ result.found_by = "ID"
                        /\ result.index \in ById
                        /\ \A j \in ById : result.index <= j
                        /\ pc = "Applied"
               /\ (ById = {} /\ ByClass # {})
                     => /\ result.found_by = "Class"
                        /\ result.index \in ByClass
                        /\ \A j \in ByClass : result.index <= j
                        /\ pc = "Applied"
               /\ (pc = "NotFound") <=> (ById = {} /\ ByClass = {})

\* C24 witness: an element with the class comes before the element with the
\* id, and the element with the id was found
C24_Witness ==
    /\ pc = "Applied"
    /\ arg.fn = "link_source_element"
    /\ Len(arg.page.elements) = 2
    /\ arg.page.elements[1] = [id |-> FALSE, class |-> TRUE]
    /\ arg.page.elements[2] = [id |-> TRUE, class |-> FALSE]
    /\ result = [found_by |-> "ID", index |-> 2]

====
